---- MODULE Spec2Model ----
(***************************************************************************)
(* Model of src/src/alpaca_eval/decoders/huggingface_local.py:             *)
(* huggingface_local_completions, one caller making calls one after the    *)
(* other.  Each block of the function body is one step; the calls made to  *)
(* the wrapped library (tokenizer load, model load, to_bettertransformer,  *)
(* pipeline construction, pipeline invocation) are recorded in `log`.      *)
(*                                                                         *)
(* Python values: None is the string "None"; a str is a sequence of        *)
(* one-character strings, so len(s) is Len(s); a dict is a function whose  *)
(* DOMAIN is its key set; list indices stay 0-based as values              *)
(* (original_order holds 0..N-1) and are shifted by one when they index a  *)
(* TLA+ sequence.                                                          *)
(***************************************************************************)
EXTENDS Integers, Sequences, FiniteSets, TLC

VARIABLES
    pc,                     \* position in the function body
    in_prompts,             \* the caller's prompts argument (never mutated)
    prompts,                \* the local name `prompts` (rebound at line 77-78)
    batch_size,             \* the batch_size argument
    kw_ref,                 \* which dict object model_kwargs is bound to
    default_model_kwargs,   \* the dict object built once at def time (line 20-22)
    caller_model_kwargs,    \* the dict object the caller passed, if any
    entry_model_kwargs,     \* entries of the bound dict when the call was made
    cuda,                   \* what torch.cuda.is_available() answered (line 54)
    tokenizer,              \* the tokenizer object (line 61)
    model,                  \* the model object (lines 62-68)
    bt_outcome,             \* how model.to_bettertransformer() ended (lines 67-70)
    original_order,         \* line 77
    completions,            \* lines 95, 97, 101-102
    result,                 \* the returned list
    error,                  \* the exception that left the function, or "none"
    log                     \* calls made to the wrapped library in this call

vars == <<pc, in_prompts, prompts, batch_size, kw_ref, default_model_kwargs,
          caller_model_kwargs, entry_model_kwargs, cuda, tokenizer, model,
          bt_outcome, original_order, completions, result, error, log>>

----------------------------------------------------------------------------
(* Bounds and input sets *)

MaxPrompts == 3
NumReturn == 2

\* Prompts of two lengths, two different texts of each length.
PromptTexts == { <<"a">>, <<"b">>, <<"a", "a">>, <<"a", "b">> }

RECURSIVE ListsUpTo(_)
ListsUpTo(n) ==
    IF n = 0 THEN { <<>> }
    ELSE LET shorter == ListsUpTo(n - 1)
         IN shorter \cup { Append(l, p) : l \in { s \in shorter : Len(s) = n - 1 },
                                          p \in PromptTexts }

PromptLists == ListsUpTo(MaxPrompts)

BatchSizes == { 0, 1, 2, 3 }

\* End-of-sequence ids a tokenizer file or a model config can carry.
EosIds == { "eos_a", "eos_b" }

----------------------------------------------------------------------------
(* Dicts *)

DictSet(d, k, v) ==
    [x \in (DOMAIN d) \cup {k} |-> IF x = k THEN v ELSE d[x]]

EmptyDict == [x \in {} |-> "None"]

\* lines 20-22: the default value of model_kwargs.
DefaultModelKwargs ==
    [x \in {"device_map", "torch_dtype"} |->
        IF x = "device_map" THEN "auto" ELSE "float16"]

\* dicts a caller may pass instead.
CallerModelKwargs ==
    { DictSet(DictSet(EmptyDict, "load_in_8bit", "True"), "torch_dtype", "float16"),
      DictSet(EmptyDict, "device_map", "auto") }

\* the dict object the name model_kwargs is bound to.
model_kwargs ==
    IF kw_ref = "default" THEN default_model_kwargs ELSE caller_model_kwargs

----------------------------------------------------------------------------
(* Python builtins used by the function *)

Min(a, b) == IF a <= b THEN a ELSE b

\* Enumerate counting from 1, as enumerate(xs, 1) would.
Enumerate_from1(xs) == [i \in 1..Len(xs) |-> <<i, xs[i]>>]

\* enumerate(xs): the pairs (index, element), indices from 0.
Enumerate(xs) == [i \in 1..Len(xs) |-> <<i - 1, xs[i]>>]

\* zip(a, b): pairs, as many as the shorter argument has.
Zip(a, b) == [i \in 1..Min(Len(a), Len(b)) |-> <<a[i], b[i]>>]

\* zip(*pairs): the tuple of first components and the tuple of second ones.
Firsts(pairs) == [i \in 1..Len(pairs) |-> pairs[i][1]]
Seconds(pairs) == [i \in 1..Len(pairs) |-> pairs[i][2]]

\* PyInsert with x put in front of the elements of equal key (an unstable sort).
PyInsert_unstable(x, s) ==
    LET n == Cardinality({ j \in 1..Len(s) : s[j].key < x.key })
    IN SubSeq(s, 1, n) \o <<x>> \o SubSeq(s, n + 1, Len(s))

\* sorted(..., key=...) on elements already paired with their key: x goes
\* behind every element whose key is not greater, so equal keys keep their order.
PyInsert(x, s) ==
    LET n == Cardinality({ j \in 1..Len(s) : s[j].key <= x.key })
    IN SubSeq(s, 1, n) \o <<x>> \o SubSeq(s, n + 1, Len(s))

RECURSIVE PySorted(_)
PySorted(s) ==
    IF s = <<>> THEN <<>>
    ELSE PyInsert(s[Len(s)], PySorted(SubSeq(s, 1, Len(s) - 1)))

Items(s) == [i \in 1..Len(s) |-> s[i].item]

\* line 77: sorted(enumerate(prompts), key=lambda x: len(x[1]))
SortedByLength(pairs) ==
    Items(PySorted([i \in 1..Len(pairs) |->
                      [key |-> Len(pairs[i][2]), item |-> pairs[i]]]))

\* line 101: sorted(list(zip(completions, original_order)), key=lambda x: x[1])
SortedByOrder(pairs) ==
    Items(PySorted([i \in 1..Len(pairs) |->
                      [key |-> pairs[i][2], item |-> pairs[i]]]))

\* line 77, left-hand side: original_order is the tuple of indices
OriginalOrder(ps) == Firsts(SortedByLength(Enumerate(ps)))

\* lines 77-78: prompts is the list of prompts in sorted order
SortedPrompts(ps) == Seconds(SortedByLength(Enumerate(ps)))

\* RestoreOrder with the re-sort left out.
RestoreOrder_none(cs, order) == cs

\* lines 101-102: completions put back by original_order
RestoreOrder(cs, order) == Firsts(SortedByOrder(Zip(cs, order)))

----------------------------------------------------------------------------
(* The wrapped library, as this function uses it *)

NoTokenizer == [loaded |-> FALSE, pad_token_id |-> "None", eos_token_id |-> "None"]
NoModel == [loaded |-> FALSE, eos_token_id |-> "None", better |-> FALSE]

\* pad token ids a freshly loaded tokenizer may carry (many have none).
PadIds == { "None", "pad_x" }

\* one recorded call to the library
LibCall(op, kw, ps, pad, bs) ==
    [op |-> op, kwargs |-> kw, prompts |-> ps, pad_token_id |-> pad, batch_size |-> bs]

\* line 95: what pipeline(prompts, return_full_text=False, ...) returns: for the
\* prompt at each position handed over, the ranked list of candidates.  The
\* text of a candidate names the prompt it continues, the position that prompt
\* was handed over at and the candidate's rank.
PipelineOutput(ps) ==
    [k \in 1..Len(ps) |->
        [r \in 1..NumReturn |->
            [generated_text |-> [of |-> ps[k], at |-> k, rank |-> r]]]]

\* TopRanked taking every candidate of every prompt instead of the first one.
TopRanked_flat(raw) ==
    [j \in 1..(Len(raw) * NumReturn) |->
        raw[((j - 1) \div NumReturn) + 1][((j - 1) % NumReturn) + 1].generated_text]

\* line 97: [completion[0]["generated_text"] for completion in completions]
TopRanked(raw) == [k \in 1..Len(raw) |-> raw[k][1].generated_text]

\* NoSamples with the comparison wrong, so that the early return is never taken.
NoSamples_negative(ps) == Len(ps) < 0

\* line 46: n_examples == 0
NoSamples(ps) == Len(ps) = 0

\* ForcedOff with the load_in_8bit assignment left out.
ForcedOff_dtypeOnly(kw) == DictSet(kw, "torch_dtype", "None")

\* lines 55-56
ForcedOff(kw) == DictSet(DictSet(kw, "load_in_8bit", "False"), "torch_dtype", "None")

\* line 66: the condition under which to_bettertransformer is attempted
AttemptsTransform(bs) == bs = 1

\* Swallowed widened to every exception (except Exception).
Swallowed_any(exc) == TRUE

\* line 69: the exceptions the try statement swallows
Swallowed(exc) == exc = "NotImplementedError"

\* line 74 and line 99: the condition under which prompts are sorted and
\* completions put back
Reorders(bs) == bs > 1

\* line 87: the value assigned to tokenizer.pad_token_id
ConfiguredPad(tok, mdl) == mdl.eos_token_id

\* line 95: the value passed as pad_token_id (pipeline.tokenizer is tokenizer)
GenerationPad(tok, mdl) == tok.eos_token_id

----------------------------------------------------------------------------
(* The function, block by block *)

Init ==
    /\ pc = "idle"
    /\ in_prompts = <<>>
    /\ prompts = <<>>
    /\ batch_size = 1
    /\ kw_ref = "default"
    /\ default_model_kwargs = DefaultModelKwargs
    /\ caller_model_kwargs = EmptyDict
    /\ entry_model_kwargs = DefaultModelKwargs
    /\ cuda = "unknown"
    /\ tokenizer = NoTokenizer
    /\ model = NoModel
    /\ bt_outcome = "not_attempted"
    /\ original_order = <<>>
    /\ completions = <<>>
    /\ result = <<>>
    /\ error = "none"
    /\ log = <<>>

\* lines 15-25: a call binds the arguments; model_kwargs is bound either to the
\* default dict object or to the dict the caller passes.
Call(ps, bs, ref, ckw) ==
    /\ pc = "idle"
    /\ pc' = "entered"
    /\ in_prompts' = ps
    /\ prompts' = ps
    /\ batch_size' = bs
    /\ kw_ref' = ref
    /\ caller_model_kwargs' = IF ref = "caller" THEN ckw ELSE EmptyDict
    /\ entry_model_kwargs' = IF ref = "caller" THEN ckw ELSE default_model_kwargs
    /\ cuda' = "unknown"
    /\ tokenizer' = NoTokenizer
    /\ model' = NoModel
    /\ bt_outcome' = "not_attempted"
    /\ original_order' = <<>>
    /\ completions' = <<>>
    /\ result' = <<>>
    /\ error' = "none"
    /\ log' = <<>>
    /\ UNCHANGED default_model_kwargs

\* lines 45-52
CheckEmpty ==
    /\ pc = "entered"
    /\ IF NoSamples(prompts)
       THEN /\ result' = <<>>
            /\ pc' = "returned"
       ELSE /\ pc' = "cuda_check"
            /\ UNCHANGED result
    /\ UNCHANGED <<in_prompts, prompts, batch_size, kw_ref, default_model_kwargs,
                   caller_model_kwargs, entry_model_kwargs, cuda, tokenizer, model,
                   bt_outcome, original_order, completions, error, log>>

\* lines 54-59: the two item assignments go to whichever dict object is bound.
CpuFallback(available) ==
    /\ pc = "cuda_check"
    /\ cuda' = IF available THEN "available" ELSE "unavailable"
    /\ IF available
       THEN UNCHANGED <<default_model_kwargs, caller_model_kwargs>>
       ELSE IF kw_ref = "default"
            THEN /\ default_model_kwargs' = ForcedOff(default_model_kwargs)
                 /\ UNCHANGED caller_model_kwargs
            ELSE /\ caller_model_kwargs' = ForcedOff(caller_model_kwargs)
                 /\ UNCHANGED default_model_kwargs
    /\ pc' = "load_tokenizer"
    /\ UNCHANGED <<in_prompts, prompts, batch_size, kw_ref, entry_model_kwargs,
                   tokenizer, model, bt_outcome, original_order, completions,
                   result, error, log>>

\* line 61
LoadTokenizer(ok, eos, pad) ==
    /\ pc = "load_tokenizer"
    /\ log' = Append(log, LibCall("AutoTokenizer.from_pretrained", model_kwargs,
                                  <<>>, "None", 0))
    /\ IF ok
       THEN /\ tokenizer' = [loaded |-> TRUE, pad_token_id |-> pad, eos_token_id |-> eos]
            /\ pc' = "load_model"
            /\ UNCHANGED error
       ELSE /\ error' = "OSError"
            /\ pc' = "raised"
            /\ UNCHANGED tokenizer
    /\ UNCHANGED <<in_prompts, prompts, batch_size, kw_ref, default_model_kwargs,
                   caller_model_kwargs, entry_model_kwargs, cuda, model, bt_outcome,
                   original_order, completions, result>>

\* lines 62-64
LoadModel(ok, eos) ==
    /\ pc = "load_model"
    /\ log' = Append(log, LibCall("AutoModelForCausalLM.from_pretrained", model_kwargs,
                                  <<>>, "None", 0))
    /\ IF ok
       THEN /\ model' = [loaded |-> TRUE, eos_token_id |-> eos, better |-> FALSE]
            /\ pc' = "transform"
            /\ UNCHANGED error
       ELSE /\ error' = "OSError"
            /\ pc' = "raised"
            /\ UNCHANGED model
    /\ UNCHANGED <<in_prompts, prompts, batch_size, kw_ref, default_model_kwargs,
                   caller_model_kwargs, entry_model_kwargs, cuda, tokenizer, bt_outcome,
                   original_order, completions, result>>

\* what model.to_bettertransformer() may do
TransformOutcomes == { "ok", "NotImplementedError", "RuntimeError" }

\* lines 66-72
Transform(outcome) ==
    /\ pc = "transform"
    /\ IF AttemptsTransform(batch_size)
       THEN /\ log' = Append(log, LibCall("to_bettertransformer", EmptyDict,
                                          <<>>, "None", 0))
            /\ bt_outcome' = outcome
            /\ IF outcome = "ok"
               THEN /\ model' = [model EXCEPT !.better = TRUE]
                    /\ pc' = "sort"
                    /\ UNCHANGED error
               ELSE IF Swallowed(outcome)
                    THEN /\ pc' = "sort"
                         /\ UNCHANGED <<model, error>>
                    ELSE /\ error' = outcome
                         /\ pc' = "raised"
                         /\ UNCHANGED model
       ELSE /\ outcome = "ok"
            /\ pc' = "sort"
            /\ UNCHANGED <<log, bt_outcome, model, error>>
    /\ UNCHANGED <<in_prompts, prompts, batch_size, kw_ref, default_model_kwargs,
                   caller_model_kwargs, entry_model_kwargs, cuda, tokenizer,
                   original_order, completions, result>>

\* lines 74-78
SortPrompts ==
    /\ pc = "sort"
    /\ IF Reorders(batch_size)
       THEN /\ original_order' = OriginalOrder(prompts)
            /\ prompts' = SortedPrompts(prompts)
       ELSE UNCHANGED <<original_order, prompts>>
    /\ pc' = "configure"
    /\ UNCHANGED <<in_prompts, batch_size, kw_ref, default_model_kwargs,
                   caller_model_kwargs, entry_model_kwargs, cuda, tokenizer, model,
                   bt_outcome, completions, result, error, log>>

\* lines 80-91: the pad token is assigned, then the pipeline is built
Configure(ok) ==
    /\ pc = "configure"
    /\ tokenizer' = [tokenizer EXCEPT !.pad_token_id = ConfiguredPad(tokenizer, model)]
    /\ log' = Append(log, LibCall("transformers.pipeline", model_kwargs, <<>>,
                                  ConfiguredPad(tokenizer, model), batch_size))
    /\ IF ok
       THEN /\ pc' = "generate"
            /\ UNCHANGED error
       ELSE /\ error' = "PipelineError"
            /\ pc' = "raised"
    /\ UNCHANGED <<in_prompts, prompts, batch_size, kw_ref, default_model_kwargs,
                   caller_model_kwargs, entry_model_kwargs, cuda, model, bt_outcome,
                   original_order, completions, result>>

\* lines 94-97
Generate(ok) ==
    /\ pc = "generate"
    /\ log' = Append(log, LibCall("pipeline.__call__", EmptyDict, prompts,
                                  GenerationPad(tokenizer, model), batch_size))
    /\ IF ok
       THEN /\ completions' = TopRanked(PipelineOutput(prompts))
            /\ pc' = "reorder"
            /\ UNCHANGED error
       ELSE /\ error' = "GenerationFailure"
            /\ pc' = "raised"
            /\ UNCHANGED completions
    /\ UNCHANGED <<in_prompts, prompts, batch_size, kw_ref, default_model_kwargs,
                   caller_model_kwargs, entry_model_kwargs, cuda, tokenizer, model,
                   bt_outcome, original_order, result>>

\* lines 99-104
ReorderAndReturn ==
    /\ pc = "reorder"
    /\ completions' = IF Reorders(batch_size)
                      THEN RestoreOrder(completions, original_order)
                      ELSE completions
    /\ result' = completions'
    /\ pc' = "returned"
    /\ UNCHANGED <<in_prompts, prompts, batch_size, kw_ref, default_model_kwargs,
                   caller_model_kwargs, entry_model_kwargs, cuda, tokenizer, model,
                   bt_outcome, original_order, error, log>>

\* lines 48 and 104, or an exception leaving the function: the frame is gone,
\* with it the local names; the default dict object of the function stays.
Release ==
    /\ pc \in {"returned", "raised"}
    /\ pc' = "idle"
    /\ in_prompts' = <<>>
    /\ prompts' = <<>>
    /\ batch_size' = 1
    /\ kw_ref' = "default"
    /\ caller_model_kwargs' = EmptyDict
    /\ entry_model_kwargs' = default_model_kwargs
    /\ cuda' = "unknown"
    /\ tokenizer' = NoTokenizer
    /\ model' = NoModel
    /\ bt_outcome' = "not_attempted"
    /\ original_order' = <<>>
    /\ completions' = <<>>
    /\ result' = <<>>
    /\ error' = "none"
    /\ log' = <<>>
    /\ UNCHANGED default_model_kwargs

\* a caller invokes the function, with or without a model_kwargs of its own
Invoke ==
    /\ pc = "idle"
    /\ \E ps \in PromptLists, bs \in BatchSizes, ref \in {"default", "caller"} :
          \E ckw \in (IF ref = "caller" THEN CallerModelKwargs ELSE {EmptyDict}) :
             Call(ps, bs, ref, ckw)

Next ==
    \/ Invoke
    \/ CheckEmpty
    \/ \E available \in BOOLEAN : CpuFallback(available)
    \/ \E ok \in BOOLEAN, eos \in EosIds, pad \in PadIds : LoadTokenizer(ok, eos, pad)
    \/ \E ok \in BOOLEAN, eos \in EosIds : LoadModel(ok, eos)
    \/ \E outcome \in TransformOutcomes : Transform(outcome)
    \/ SortPrompts
    \/ \E ok \in BOOLEAN : Configure(ok)
    \/ \E ok \in BOOLEAN : Generate(ok)
    \/ ReorderAndReturn
    \/ Release

Spec == Init /\ [][Next]_vars

----------------------------------------------------------------------------
(* Properties *)

LogOps == { log[i].op : i \in DOMAIN log }
LibCalls(op) == { log[i] : i \in { j \in DOMAIN log : log[j].op = op } }
Loads == LibCalls("AutoTokenizer.from_pretrained")
            \cup LibCalls("AutoModelForCausalLM.from_pretrained")
NumPrompts == Len(in_prompts)
OfLength(s, n) == LET HasLength(x) == Len(x) = n IN SelectSeq(s, HasLength)
Lengths(s) == { Len(s[i]) : i \in DOMAIN s }

\* C1: a call with non-empty prompts and batch_size >= 1 that returns gives, at
\* every index i, the first-ranked text the pipeline produced for prompts[i]:
\* the text continues prompts[i], was produced at the position where prompts[i]
\* was handed over, and every pipeline output is used exactly once.  The text
\* at index i depends on prompts[i] alone, so permuting the prompts permutes
\* the completions alike.
C1_CompletionsFollowPrompts ==
    (pc = "returned" /\ NumPrompts > 0 /\ batch_size >= 1) =>
        /\ Len(result) = NumPrompts
        /\ \A i \in 1..NumPrompts :
              /\ result[i].of = in_prompts[i]
              /\ result[i].rank = 1
              /\ result[i].at \in 1..NumPrompts
              /\ \A e \in LibCalls("pipeline.__call__") :
                    e.prompts[result[i].at] = in_prompts[i]
        /\ { result[i].at : i \in 1..NumPrompts } = 1..NumPrompts

\* C1 witness: three prompts were reordered by a permutation that is not its
\* own inverse, and the call returned.
C1_Witness ==
    /\ pc = "returned"
    /\ batch_size = 2
    /\ in_prompts = << <<"a", "b">>, <<"b">>, <<"a">> >>
    /\ original_order = <<1, 2, 0>>
    /\ result[1].of = <<"a", "b">>

\* C2: a call with batch_size >= 1 that returns normally returns as many
\* completions as it was given prompts, none included.
C2_LengthPreserved ==
    (pc = "returned" /\ batch_size >= 1) => Len(result) = NumPrompts

\* C2 witness: a returned call on three prompts, unbatched.
C2_Witness ==
    /\ pc = "returned"
    /\ batch_size = 1
    /\ NumPrompts = 3
    /\ Len(result) = 3

\* C3: with no prompts the call returns the empty list at once, whatever the
\* other arguments: nothing is loaded, transformed or run, and the accelerator
\* is not even asked for.
C3_EmptyReturnsAtOnce ==
    (NumPrompts = 0 /\ pc \notin {"idle", "entered"}) =>
        /\ pc = "returned"
        /\ result = <<>>
        /\ log = <<>>
        /\ error = "none"
        /\ cuda = "unknown"
        /\ ~tokenizer.loaded
        /\ ~model.loaded
        /\ bt_outcome = "not_attempted"

\* C3 witness: a call without prompts, with batch_size 0 and a caller's dict,
\* has returned.
C3_Witness ==
    /\ pc = "returned"
    /\ in_prompts = <<>>
    /\ batch_size = 0
    /\ kw_ref = "caller"
    /\ result = <<>>

\* C4: when the accelerator is reported unavailable, load_in_8bit = False and
\* torch_dtype = None are in model_kwargs before anything is loaded, and every
\* tokenizer load and model load of the call is made with them.
C4_CpuForcesOptionsOff ==
    (cuda = "unavailable") =>
        /\ (pc = "load_tokenizer" =>
              /\ log = <<>>
              /\ "load_in_8bit" \in DOMAIN model_kwargs
              /\ model_kwargs["load_in_8bit"] = "False"
              /\ model_kwargs["torch_dtype"] = "None")
        /\ \A e \in Loads :
              /\ "load_in_8bit" \in DOMAIN e.kwargs
              /\ e.kwargs["load_in_8bit"] = "False"
              /\ "torch_dtype" \in DOMAIN e.kwargs
              /\ e.kwargs["torch_dtype"] = "None"

\* C4 witness: the caller asked for 8-bit float16 loading, no accelerator was
\* there, and both the tokenizer and the model have been loaded.
C4_Witness ==
    /\ cuda = "unavailable"
    /\ kw_ref = "caller"
    /\ "load_in_8bit" \in DOMAIN entry_model_kwargs
    /\ entry_model_kwargs["load_in_8bit"] = "True"
    /\ entry_model_kwargs["torch_dtype"] = "float16"
    /\ model.loaded
    /\ Cardinality(Loads) = 2

\* C5: a call with prompts and batch_size < 1 neither runs generation nor
\* returns completions.
C5_BadBatchSizeRejected ==
    (NumPrompts > 0 /\ batch_size < 1) =>
        /\ "pipeline.__call__" \notin LogOps
        /\ pc # "returned"

\* C6: during and after a call (taken here with batch_size >= 1) the dict
\* object model_kwargs is bound to, the function's default or the caller's,
\* holds the entries it held when the call was made.
C6_NoStateLeftBehind ==
    (batch_size >= 1 /\ pc # "idle") =>
        /\ (kw_ref = "default") => default_model_kwargs = entry_model_kwargs
        /\ (kw_ref = "caller") => caller_model_kwargs = entry_model_kwargs

\* the transformation step is behind
PastTransform == model.loaded /\ pc # "transform"

\* C7: to_bettertransformer is attempted exactly when batch_size = 1; after
\* NotImplementedError the call goes on with the unmodified model and no such
\* error leaves the function; any other failure leaves the function at once,
\* before the pipeline is built or run.
C7_TransformFallback ==
    /\ ("to_bettertransformer" \in LogOps) => (batch_size = 1 /\ PastTransform)
    /\ (PastTransform /\ batch_size = 1) => "to_bettertransformer" \in LogOps
    /\ (bt_outcome = "NotImplementedError") =>
          /\ ~model.better
          /\ pc \in {"sort", "configure", "generate", "reorder", "returned", "raised"}
          /\ pc = "raised" => error \in {"PipelineError", "GenerationFailure"}
          /\ pc = "returned" => Len(result) = NumPrompts
    /\ (bt_outcome = "RuntimeError") =>
          /\ pc = "raised"
          /\ error = "RuntimeError"
          /\ "transformers.pipeline" \notin LogOps
          /\ "pipeline.__call__" \notin LogOps

\* C7 witness: the transformation was unsupported and the call returned its
\* completions all the same.
C7_Witness ==
    /\ bt_outcome = "NotImplementedError"
    /\ pc = "returned"
    /\ NumPrompts = 2
    /\ Len(result) = 2
    /\ "pipeline.__call__" \in LogOps

\* C8: with batch_size > 1 the prompts handed to the pipeline are the input
\* prompts in ascending length, prompts of one length in their input order;
\* with batch_size = 1 they are the input prompts as given.
C8_StableLengthSort ==
    \A e \in LibCalls("pipeline.__call__") :
        /\ (batch_size > 1) =>
              /\ Len(e.prompts) = NumPrompts
              /\ \A k \in 1..(Len(e.prompts) - 1) :
                    Len(e.prompts[k]) <= Len(e.prompts[k + 1])
              /\ \A n \in Lengths(in_prompts) \cup Lengths(e.prompts) :
                    OfLength(e.prompts, n) = OfLength(in_prompts, n)
        /\ (batch_size = 1) => e.prompts = in_prompts

\* C8 witness: a longer prompt came first and two different prompts of one
\* length followed; the pipeline got the short ones first, in input order.
C8_Witness ==
    /\ batch_size = 2
    /\ in_prompts = << <<"a", "b">>, <<"b">>, <<"a">> >>
    /\ \E e \in LibCalls("pipeline.__call__") :
          e.prompts = << <<"b">>, <<"a">>, <<"a", "b">> >>

\* the sort step is behind and the call has not failed
PastSort == pc \in {"configure", "generate", "reorder", "returned"}

\* C9: original_order holds every index 0..N-1 once, position k of the sorted
\* prompts came from index original_order[k], and re-sorting by original_order
\* sends the indices to 0..N-1 in order, the sorted prompts to the input
\* prompts, and (in the returned list) each completion to the index of its
\* prompt.
C9_ReorderRoundTrip ==
    (PastSort /\ batch_size > 1) =>
        /\ Len(original_order) = NumPrompts
        /\ { original_order[k] : k \in 1..NumPrompts } = 0..(NumPrompts - 1)
        /\ \A k \in 1..NumPrompts : prompts[k] = in_prompts[original_order[k] + 1]
        /\ RestoreOrder(original_order, original_order)
              = [i \in 1..NumPrompts |-> i - 1]
        /\ RestoreOrder(prompts, original_order) = in_prompts
        /\ (pc = "returned") =>
              \A i \in 1..NumPrompts : original_order[result[i].at] = i - 1

\* C9 witness: three prompts, two of them equal, a returned call whose sort
\* moved the long prompt from the front to the back.
C9_Witness ==
    /\ pc = "returned"
    /\ batch_size = 3
    /\ in_prompts = << <<"a", "a">>, <<"b">>, <<"b">> >>
    /\ original_order = <<1, 2, 0>>
    /\ prompts = << <<"b">>, <<"b">>, <<"a", "a">> >>

\* C10: on a call with batch_size >= 1, once the pipeline is built the
\* tokenizer's pad token is the model's end-of-sequence token, and the pad
\* token passed to the generation call is that same token.
C10_PadIsModelEos ==
    (batch_size >= 1) =>
        /\ ("transformers.pipeline" \in LogOps) =>
              tokenizer.pad_token_id = model.eos_token_id
        /\ \A e \in LibCalls("pipeline.__call__") :
              e.pad_token_id = model.eos_token_id

====
